---- MODULE Spec2Model ----
(***************************************************************************)
(* Serverbound packets of ozelot (src/serverbound.rs): the hand-written    *)
(* encoders and decoders of StatusRequest, TabComplete, UseEntity,         *)
(* CraftingBookData and AdvancementTab, Handshake::get_next_clientstate    *)
(* and EncryptionResponse::get_decrypted_shared_secret.                    *)
(*                                                                         *)
(* Conventions                                                             *)
(*   Option<T>   a sequence of length at most one: None is <<>>, Some(x)   *)
(*               is <<x>>.                                                 *)
(*   Result<T>   a record [ok, val, err]; val is Some(value) on success    *)
(*               and None on failure, err the other way round.             *)
(*   a reader    the sequence of bytes not yet read; every read returns    *)
(*               the Result together with the reader that is left (rest).  *)
(*   i32         an integer in -2^31 .. 2^31-1; the conversions between    *)
(*               i32 and bytes are computed on the two's complement form.  *)
(*   f32         the IEEE-754 bit pattern of the float, as an i32.         *)
(*   String      a sequence of Unicode code points.                        *)
(***************************************************************************)
EXTENDS Integers, Sequences, FiniteSets, TLC

VARIABLES op, kind, arg, result, ret, rest, lenientBool

vars == <<op, kind, arg, result, ret, rest, lenientBool>>

----------------------------------------------------------------------------
(* Bounds of the model *)

\* longest arbitrary byte stream handed to a decoder
MaxStream == 3
\* longest junk suffix appended to an encoded body before decoding it
MaxJunk == 1
\* largest next_state of the contiguous range tried (99 is added apart)
MaxNextState == 4

----------------------------------------------------------------------------
(* Option and Result *)

None == <<>>

Some(x) == <<x>>

IsSome(o) == Len(o) = 1

Unwrap(o) == o[1]

Ok(v) == [ok |-> TRUE, val |-> Some(v), err |-> None]

Err(e) == [ok |-> FALSE, val |-> None, err |-> Some(e)]

\* result of a read: the Result and the reader left behind
ROk(v, s) == [ok |-> TRUE, val |-> Some(v), err |-> None, rest |-> s]

RErr(e, s) == [ok |-> FALSE, val |-> None, err |-> Some(e), rest |-> s]

\* error kinds (section 7 of the specification names them)
IoFailure == [kind |-> "IoFailure"]

MalformedPrimitive(what) == [kind |-> "MalformedPrimitive", what |-> what]

InvalidVariant(packet, tag) == [kind |-> "InvalidVariant", packet |-> packet, value |-> tag]

MissingField(field, action) == [kind |-> "MissingField", field |-> field, action |-> action]

InvalidSecretLength == [kind |-> "InvalidSecretLength"]

CryptoError == [kind |-> "CryptoError"]

----------------------------------------------------------------------------
(* Wire primitives: write side.  A write appends to the buffer ret; writing *)
(* to a Vec<u8> cannot fail, so each write yields the new buffer.          *)

TwoTo25 == 33554432

\* LEB128 groups of a non-negative magnitude, low group first
RECURSIVE VarintGroups(_)
VarintGroups(u) ==
    IF u < 128 THEN <<u>>
    ELSE <<(u % 128) + 128>> \o VarintGroups(u \div 128)

\* the i32 is written as the u32 with the same bits: a negative value
\* always has a second group, (v + 2^32) >> 7 = floor(v / 128) + 2^25
VarintBytes(v) ==
    IF v >= 0 THEN VarintGroups(v)
    ELSE <<(v % 128) + 128>> \o VarintGroups((v \div 128) + TwoTo25)

write_varint(v, buf) == buf \o VarintBytes(v)

\* 4 bytes, big endian, two's complement
I32Bytes(v) ==
    LET v1 == v \div 256
        v2 == v1 \div 256
        v3 == v2 \div 256
    IN <<v3 % 256, v2 % 256, v1 % 256, v % 256>>

write_i32(v, buf) == buf \o I32Bytes(v)

\* a float is carried as its bit pattern
write_f32(v, buf) == buf \o I32Bytes(v)

write_bool(b, buf) == buf \o <<IF b THEN 1 ELSE 0>>

\* UTF-8 of one code point
Utf8OfChar(c) ==
    IF c < 128 THEN <<c>>
    ELSE IF c < 2048 THEN <<192 + (c \div 64), 128 + (c % 64)>>
    ELSE IF c < 65536 THEN
        <<224 + (c \div 4096), 128 + ((c \div 64) % 64), 128 + (c % 64)>>
    ELSE <<240 + (c \div 262144), 128 + ((c \div 4096) % 64),
           128 + ((c \div 64) % 64), 128 + (c % 64)>>

RECURSIVE Utf8Bytes(_)
Utf8Bytes(str) ==
    IF str = <<>> THEN <<>>
    ELSE Utf8OfChar(Head(str)) \o Utf8Bytes(Tail(str))

\* length in bytes as a varint, then the UTF-8 bytes
write_String(str, buf) ==
    LET bytes == Utf8Bytes(str)
    IN write_varint(Len(bytes), buf) \o bytes

\* n low bits of v (two's complement), most significant first
RECURSIVE BitsOf(_, _)
BitsOf(v, n) ==
    IF n = 0 THEN <<>>
    ELSE BitsOf(v \div 2, n - 1) \o <<v % 2>>

RECURSIVE BitsToNat(_)
BitsToNat(bits) ==
    IF bits = <<>> THEN 0
    ELSE 2 * BitsToNat(SubSeq(bits, 1, Len(bits) - 1)) + bits[Len(bits)]

\* a block position packs x (26 bits), y (12 bits), z (26 bits) into one
\* 64-bit integer written big endian
PositionBytes(pos) ==
    LET bits == BitsOf(pos[1], 26) \o BitsOf(pos[2], 12) \o BitsOf(pos[3], 26)
    IN [i \in 1..8 |-> BitsToNat(SubSeq(bits, 8 * i - 7, 8 * i))]

write_position(pos, buf) == buf \o PositionBytes(pos)

----------------------------------------------------------------------------
(* Wire primitives: read side *)

\* the value of at most five 7-bit groups, truncated to 32 bits and read
\* as an i32
VarintValue(groups) ==
    LET g(i) == IF i <= Len(groups) THEN groups[i] ELSE 0
        low == g(1) + 128 * g(2) + 16384 * g(3) + 2097152 * g(4)
        top == g(5) % 16
    IN IF top >= 8 THEN low + (top - 16) * 268435456
       ELSE low + top * 268435456

RECURSIVE ReadVarintFrom(_, _)
ReadVarintFrom(s, groups) ==
    IF s = <<>> THEN RErr(IoFailure, s)
    ELSE LET b == Head(s)
             gs == Append(groups, b % 128)
         IN IF b < 128 THEN ROk(VarintValue(gs), Tail(s))
            ELSE IF Len(gs) >= 5
                 THEN RErr(MalformedPrimitive("varint"), Tail(s))
                 ELSE ReadVarintFrom(Tail(s), gs)

read_varint(s) == ReadVarintFrom(s, <<>>)

I32OfBytes(b) ==
    LET hi == IF b[1] >= 128 THEN b[1] - 256 ELSE b[1]
    IN ((hi * 256 + b[2]) * 256 + b[3]) * 256 + b[4]

\* read_exact: fewer bytes than asked is an I/O failure
read_i32(s) ==
    IF Len(s) < 4 THEN RErr(IoFailure, <<>>)
    ELSE ROk(I32OfBytes(SubSeq(s, 1, 4)), SubSeq(s, 5, Len(s)))

read_f32(s) == read_i32(s)

\* whether a byte other than 0 and 1 is read as true or rejected is left
\* open by the specification: lenient selects between the two
read_bool(s, lenient) ==
    IF s = <<>> THEN RErr(IoFailure, s)
    ELSE IF Head(s) = 0 THEN ROk(FALSE, Tail(s))
    ELSE IF Head(s) = 1 \/ lenient THEN ROk(TRUE, Tail(s))
    ELSE RErr(MalformedPrimitive("bool"), Tail(s))

IsCont(b) == b >= 128 /\ b < 192

\* code points of a UTF-8 byte sequence, None when it is not valid UTF-8
RECURSIVE Utf8Decode(_)
Utf8Decode(b) ==
    IF b = <<>> THEN Some(<<>>)
    ELSE
      LET n == IF b[1] < 128 THEN 1
               ELSE IF b[1] >= 194 /\ b[1] < 224 THEN 2
               ELSE IF b[1] >= 224 /\ b[1] < 240 THEN 3
               ELSE IF b[1] >= 240 /\ b[1] < 245 THEN 4
               ELSE 0
      IN IF n = 0 \/ Len(b) < n \/ \E i \in 2..n : ~IsCont(b[i])
         THEN None
         ELSE
           LET c == IF n = 1 THEN b[1]
                    ELSE IF n = 2 THEN (b[1] - 192) * 64 + (b[2] - 128)
                    ELSE IF n = 3 THEN (b[1] - 224) * 4096 + (b[2] - 128) * 64
                                       + (b[3] - 128)
                    ELSE (b[1] - 240) * 262144 + (b[2] - 128) * 4096
                         + (b[3] - 128) * 64 + (b[4] - 128)
               valid == /\ (n = 3 => c >= 2048 /\ ~(c >= 55296 /\ c < 57344))
                        /\ (n = 4 => c >= 65536 /\ c < 1114112)
               tl == Utf8Decode(SubSeq(b, n + 1, Len(b)))
           IN IF ~valid \/ ~IsSome(tl) THEN None
              ELSE Some(<<c>> \o Unwrap(tl))

read_String(s) ==
    LET l == read_varint(s)
    IN IF ~l.ok THEN l
       ELSE LET n == Unwrap(l.val)
            IN IF n < 0 \/ Len(l.rest) < n THEN RErr(IoFailure, <<>>)
               ELSE LET str == Utf8Decode(SubSeq(l.rest, 1, n))
                        after == SubSeq(l.rest, n + 1, Len(l.rest))
                    IN IF IsSome(str) THEN ROk(Unwrap(str), after)
                       ELSE RErr(MalformedPrimitive("utf8"), after)

\* sign extension of an n-bit field
Signed(u, n) == IF u >= 2 ^ (n - 1) THEN u - 2 ^ n ELSE u

RECURSIVE BytesToBits(_)
BytesToBits(b) ==
    IF b = <<>> THEN <<>>
    ELSE BitsOf(Head(b), 8) \o BytesToBits(Tail(b))

read_position(s) ==
    IF Len(s) < 8 THEN RErr(IoFailure, <<>>)
    ELSE LET bits == BytesToBits(SubSeq(s, 1, 8))
             x == Signed(BitsToNat(SubSeq(bits, 1, 26)), 26)
             y == Signed(BitsToNat(SubSeq(bits, 27, 38)), 12)
             z == Signed(BitsToNat(SubSeq(bits, 39, 64)), 26)
         IN ROk(<<x, y, z>>, SubSeq(s, 9, Len(s)))

----------------------------------------------------------------------------
(* Packet ids.  Each to_u8 writes its PACKET_ID first. *)

PACKET_ID(k) ==
    CASE k = "StatusRequest" -> 0
      [] k = "TabComplete" -> 1
      [] k = "UseEntity" -> 10
      [] k = "CraftingBookData" -> 23
      [] k = "AdvancementTab" -> 25

\* what to_u8 hands back, with the local buffer ret as it is on return
Return(buf) == [res |-> Ok(buf), local |-> buf]

\* bail! that hands the bytes written so far back with the error
BailWithBuffer(e, buf) ==
    [res |-> [ok |-> FALSE, val |-> Some(buf), err |-> Some(e)], local |-> buf]

\* bail!: the function returns the error; the local buffer is dropped
Bail(e, buf) == [res |-> Err(e), local |-> buf]

\* a decoded packet: the ServerboundPacket variant and its payload
Packet(k, body) == [packet |-> k, body |-> body]

----------------------------------------------------------------------------
(* Handshake and EncryptionResponse *)

\* a match that also maps 3 to Play
get_next_clientstate_WithPlay(self) ==
    CASE self.next_state = 1 -> Some("Status")
      [] self.next_state = 2 -> Some("Login")
      [] self.next_state = 3 -> Some("Play")
      [] OTHER -> None

get_next_clientstate(self) ==
    CASE self.next_state = 1 -> Some("Status")
      [] self.next_state = 2 -> Some("Login")
      [] OTHER -> None

SecretLen == 16

\* a length test that only rejects plaintexts that are too short
get_decrypted_shared_secret_AtLeast(tmp) ==
    IF ~tmp.ok THEN tmp
    ELSE IF Len(Unwrap(tmp.val)) < SecretLen THEN Err(InvalidSecretLength)
    ELSE Ok([i \in 1..SecretLen |-> Unwrap(tmp.val)[i]])

\* tmp is the outcome of utils::rsa_decrypt(key, &self.shared_secret)
get_decrypted_shared_secret(tmp) ==
    IF ~tmp.ok THEN tmp
    ELSE IF Len(Unwrap(tmp.val)) /= SecretLen THEN Err(InvalidSecretLength)
    ELSE Ok([i \in 1..SecretLen |-> Unwrap(tmp.val)[i]])

----------------------------------------------------------------------------
(* StatusRequest *)

StatusRequest_to_u8(self) ==
    Return(write_varint(PACKET_ID("StatusRequest"), <<>>))

StatusRequest_deserialize(r) ==
    ROk(Packet("StatusRequest", <<>>), r)

----------------------------------------------------------------------------
(* TabComplete *)

\* an encoder that writes the flag as true whatever looked_at_block is
TabComplete_to_u8_FlagAlways(self) ==
    LET r1 == write_varint(PACKET_ID("TabComplete"), <<>>)
        r2 == write_String(self.text, r1)
        r3 == write_bool(self.assume_command, r2)
        r4 == write_bool(TRUE, r3)
    IN IF IsSome(self.looked_at_block)
       THEN Return(write_position(Unwrap(self.looked_at_block), r4))
       ELSE Return(r4)

TabComplete_to_u8(self) ==
    LET r1 == write_varint(PACKET_ID("TabComplete"), <<>>)
        r2 == write_String(self.text, r1)
        r3 == write_bool(self.assume_command, r2)
    IN IF IsSome(self.looked_at_block)
       THEN Return(write_position(Unwrap(self.looked_at_block),
                                  write_bool(TRUE, r3)))
       ELSE Return(write_bool(FALSE, r3))

TabComplete_deserialize(r, lenient) ==
    LET text == read_String(r)
    IN IF ~text.ok THEN text ELSE
    LET assume_command == read_bool(text.rest, lenient)
    IN IF ~assume_command.ok THEN assume_command ELSE
    LET has_position == read_bool(assume_command.rest, lenient)
    IN IF ~has_position.ok THEN has_position ELSE
    LET pos == read_position(has_position.rest)
    IN IF Unwrap(has_position.val) /\ ~pos.ok THEN pos ELSE
       ROk(Packet("TabComplete",
                  [text |-> Unwrap(text.val),
                   assume_command |-> Unwrap(assume_command.val),
                   looked_at_block |-> IF Unwrap(has_position.val)
                                       THEN pos.val ELSE None]),
           IF Unwrap(has_position.val) THEN pos.rest ELSE has_position.rest)

----------------------------------------------------------------------------
(* UseEntity *)

\* an encoder that skips an absent hand instead of failing
UseEntity_to_u8_NoHandCheck(self) ==
    LET r1 == write_varint(PACKET_ID("UseEntity"), <<>>)
        r2 == write_varint(self.target, r1)
        r3 == write_varint(self.action, r2)
        loc == Unwrap(self.location)
        r4 == IF self.action = 2
              THEN write_f32(loc[3], write_f32(loc[2], write_f32(loc[1], r3)))
              ELSE r3
    IN IF self.action = 2 /\ ~IsSome(self.location)
       THEN Bail(MissingField("location", 2), r3)
       ELSE IF self.action \in {0, 2} /\ IsSome(self.hand)
            THEN Return(write_varint(Unwrap(self.hand), r4))
            ELSE Return(r4)

UseEntity_to_u8(self) ==
    LET r1 == write_varint(PACKET_ID("UseEntity"), <<>>)
        r2 == write_varint(self.target, r1)
        r3 == write_varint(self.action, r2)
        loc == Unwrap(self.location)
        r4 == IF self.action = 2
              THEN write_f32(loc[3], write_f32(loc[2], write_f32(loc[1], r3)))
              ELSE r3
    IN IF self.action = 2 /\ ~IsSome(self.location)
       THEN Bail(MissingField("location", 2), r3)
       ELSE IF self.action \in {0, 2}
            THEN IF IsSome(self.hand)
                 THEN Return(write_varint(Unwrap(self.hand), r4))
                 ELSE Bail(MissingField("hand", self.action), r4)
            ELSE Return(r4)

\* (read_f32(r)?, read_f32(r)?, read_f32(r)?)
ReadLocation(s) ==
    LET x == read_f32(s)
    IN IF ~x.ok THEN x ELSE
    LET y == read_f32(x.rest)
    IN IF ~y.ok THEN y ELSE
    LET z == read_f32(y.rest)
    IN IF ~z.ok THEN z ELSE
       ROk(<<Unwrap(x.val), Unwrap(y.val), Unwrap(z.val)>>, z.rest)

\* a decoder that reads the hand for action 2 only
UseEntity_deserialize_HandForTwo(r) ==
    LET target == read_varint(r)
    IN IF ~target.ok THEN target ELSE
    LET action == read_varint(target.rest)
    IN IF ~action.ok THEN action ELSE
    LET a == Unwrap(action.val)
        location == IF a = 2 THEN ReadLocation(action.rest)
                    ELSE ROk(<<>>, action.rest)
    IN IF ~location.ok THEN location ELSE
    LET hand == IF a = 2 THEN read_varint(location.rest)
                ELSE ROk(0, location.rest)
    IN IF ~hand.ok THEN hand ELSE
       ROk(Packet("UseEntity",
                  [target |-> Unwrap(target.val),
                   action |-> a,
                   location |-> IF a = 2 THEN location.val ELSE None,
                   hand |-> IF a = 2 THEN hand.val ELSE None]),
           hand.rest)

UseEntity_deserialize(r) ==
    LET target == read_varint(r)
    IN IF ~target.ok THEN target ELSE
    LET action == read_varint(target.rest)
    IN IF ~action.ok THEN action ELSE
    LET a == Unwrap(action.val)
        location == IF a = 2 THEN ReadLocation(action.rest)
                    ELSE ROk(<<>>, action.rest)
    IN IF ~location.ok THEN location ELSE
    LET hand == IF a = 0 \/ a = 2 THEN read_varint(location.rest)
                ELSE ROk(0, location.rest)
    IN IF ~hand.ok THEN hand ELSE
       ROk(Packet("UseEntity",
                  [target |-> Unwrap(target.val),
                   action |-> a,
                   location |-> IF a = 2 THEN location.val ELSE None,
                   hand |-> IF a = 0 \/ a = 2 THEN hand.val ELSE None]),
           hand.rest)

----------------------------------------------------------------------------
(* CraftingBookData *)

\* an encoder that tests crafting_book_status before displayed_recipe
CraftingBookData_to_u8_StatusFirst(self) ==
    LET r1 == write_varint(PACKET_ID("CraftingBookData"), <<>>)
    IN IF IsSome(self.crafting_book_status)
       THEN LET st == Unwrap(self.crafting_book_status)
            IN Return(write_bool(st[2],
                        write_bool(st[1], write_varint(1, r1))))
       ELSE IF IsSome(self.displayed_recipe)
            THEN Return(write_i32(Unwrap(self.displayed_recipe),
                                  write_varint(0, r1)))
            ELSE Return(r1)

CraftingBookData_to_u8(self) ==
    LET r1 == write_varint(PACKET_ID("CraftingBookData"), <<>>)
    IN IF IsSome(self.displayed_recipe)
       THEN Return(write_i32(Unwrap(self.displayed_recipe),
                             write_varint(0, r1)))
       ELSE IF IsSome(self.crafting_book_status)
            THEN LET st == Unwrap(self.crafting_book_status)
                 IN Return(write_bool(st[2],
                             write_bool(st[1], write_varint(1, r1))))
            ELSE Return(r1)

\* (read_bool(r)?, read_bool(r)?)
ReadStatus(s, lenient) ==
    LET book_open == read_bool(s, lenient)
    IN IF ~book_open.ok THEN book_open ELSE
    LET filter == read_bool(book_open.rest, lenient)
    IN IF ~filter.ok THEN filter ELSE
       ROk(<<Unwrap(book_open.val), Unwrap(filter.val)>>, filter.rest)

\* a decoder whose match falls through to the status branch
CraftingBookData_deserialize_DefaultStatus(r, lenient) ==
    LET typee == read_varint(r)
    IN IF ~typee.ok THEN typee ELSE
    LET t == Unwrap(typee.val)
    IN IF t = 0 THEN
         LET recipe == read_i32(typee.rest)
         IN IF ~recipe.ok THEN recipe ELSE
            ROk(Packet("CraftingBookData",
                       [displayed_recipe |-> recipe.val,
                        crafting_book_status |-> None]),
                recipe.rest)
       ELSE
         LET status == ReadStatus(typee.rest, lenient)
         IN IF ~status.ok THEN status ELSE
            ROk(Packet("CraftingBookData",
                       [displayed_recipe |-> None,
                        crafting_book_status |-> status.val]),
                status.rest)

CraftingBookData_deserialize(r, lenient) ==
    LET typee == read_varint(r)
    IN IF ~typee.ok THEN typee ELSE
    LET t == Unwrap(typee.val)
    IN IF t = 0 THEN
         LET recipe == read_i32(typee.rest)
         IN IF ~recipe.ok THEN recipe ELSE
            ROk(Packet("CraftingBookData",
                       [displayed_recipe |-> recipe.val,
                        crafting_book_status |-> None]),
                recipe.rest)
       ELSE IF t = 1 THEN
         LET status == ReadStatus(typee.rest, lenient)
         IN IF ~status.ok THEN status ELSE
            ROk(Packet("CraftingBookData",
                       [displayed_recipe |-> None,
                        crafting_book_status |-> status.val]),
                status.rest)
       ELSE RErr(InvalidVariant("CraftingBookData", t), typee.rest)

----------------------------------------------------------------------------
(* AdvancementTab *)

AdvancementTab_to_u8(self) ==
    LET r1 == write_varint(PACKET_ID("AdvancementTab"), <<>>)
    IN IF IsSome(self.tab_id)
       THEN Return(write_String(Unwrap(self.tab_id), write_varint(0, r1)))
       ELSE Return(write_varint(1, r1))

AdvancementTab_deserialize(r) ==
    LET action == read_varint(r)
    IN IF ~action.ok THEN action ELSE
    LET a == Unwrap(action.val)
    IN IF a = 0 THEN
         LET tab_id == read_String(action.rest)
         IN IF ~tab_id.ok THEN tab_id ELSE
            ROk(Packet("AdvancementTab", [tab_id |-> tab_id.val]), tab_id.rest)
       ELSE IF a = 1 THEN
            ROk(Packet("AdvancementTab", [tab_id |-> None]), action.rest)
       ELSE RErr(InvalidVariant("AdvancementTab", a), action.rest)

----------------------------------------------------------------------------
(* Inputs of the operations *)

SeqsUpTo(S, n) == UNION {[1..k -> S] : k \in 0..n}

Prefixes(s) == {SubSeq(s, 1, k) : k \in 0..Len(s)}

\* "", "foo", "root", and strings with 2-byte and 3-byte code points
Strings == {<<>>, <<102, 111, 111>>, <<114, 111, 111, 116>>,
            <<233>>, <<97, 8364>>}

Positions == {<<0, 0, 0>>, <<-1, 64, 100>>, <<33554431, -2048, -33554432>>}

\* bit patterns of 0.0, 1.0 and -1.5
Locations == {<<0, 0, 0>>, <<1065353216, -1077936128, 0>>}

OptionOf(S) == {None} \cup {Some(x) : x \in S}

TabCompletes ==
    [text : Strings, assume_command : BOOLEAN,
     looked_at_block : OptionOf(Positions)]

UseEntities ==
    [target : {300, -1}, action : {-1, 0, 1, 2, 3},
     location : OptionOf(Locations), hand : OptionOf({0, 1})]

CraftingBookDatas ==
    [displayed_recipe : OptionOf({0, -1, 2147483647, 258}),
     crafting_book_status : OptionOf(BOOLEAN \X BOOLEAN)]

AdvancementTabs == [tab_id : OptionOf(Strings)]

Handshakes == [next_state : (-MaxNextState..MaxNextState)
                            \cup {99, 2147483647, -2147483647 - 1}]

Plaintext(n, k) == [i \in 1..n |-> (i * k) % 256]

\* outcomes of utils::rsa_decrypt
Decryptions ==
    {Err(CryptoError)}
    \cup {Ok(Plaintext(n, k)) :
            n \in {0, SecretLen - 1, SecretLen, SecretLen + 1, 2 * SecretLen},
            k \in {0, 1, 37}}

\* the bytes a successful to_u8 leaves after its packet id
Body(e) == read_varint(Unwrap(e.res.val)).rest

ByteAlphabet == {0, 1, 2, 255}

JunkBytes == {7}

\* streams handed to a decoder: arbitrary short ones, and every prefix of
\* an encoded body followed by bytes of the next message
Streams(bodies) ==
    SeqsUpTo(ByteAlphabet, MaxStream)
    \cup UNION {Prefixes(b \o j) : b \in bodies, j \in SeqsUpTo(JunkBytes, MaxJunk)}

\* streams that start with a discriminant other than 0 and 1
TagStreams == {VarintBytes(t) \o j : t \in {-1, 3, 300}, j \in SeqsUpTo(JunkBytes, MaxJunk)}

TabCompleteStreams ==
    Streams({Body(TabComplete_to_u8(p)) : p \in TabCompletes})

UseEntityStreams ==
    Streams({Body(UseEntity_to_u8(p)) :
               p \in {q \in UseEntities : UseEntity_to_u8(q).res.ok}})

CraftingBookDataStreams ==
    TagStreams \cup
    Streams({Body(CraftingBookData_to_u8(p)) : p \in CraftingBookDatas})

AdvancementTabStreams ==
    TagStreams \cup
    Streams({Body(AdvancementTab_to_u8(p)) : p \in AdvancementTabs})

StatusRequestStreams == SeqsUpTo(JunkBytes, MaxJunk)

----------------------------------------------------------------------------
(* The state machine: each action is one call of one operation.  op and   *)
(* kind name the call, arg is its input, result what the caller receives, *)
(* ret the local buffer of to_u8 as it was on return, rest the reader     *)
(* after deserialize.                                                     *)

Init ==
    /\ op = "init"
    /\ kind = "none"
    /\ arg = <<>>
    /\ result = [ok |-> TRUE, val |-> None, err |-> None]
    /\ ret = <<>>
    /\ rest = <<>>
    /\ lenientBool \in BOOLEAN

Encoded(k, p, e) ==
    /\ op' = "to_u8"
    /\ kind' = k
    /\ arg' = p
    /\ result' = e.res
    /\ ret' = e.local
    /\ rest' = <<>>
    /\ UNCHANGED lenientBool

Decoded(k, s, d) ==
    /\ op' = "deserialize"
    /\ kind' = k
    /\ arg' = s
    /\ result' = [ok |-> d.ok, val |-> d.val, err |-> d.err]
    /\ ret' = <<>>
    /\ rest' = d.rest
    /\ UNCHANGED lenientBool

EncodeStatusRequest ==
    Encoded("StatusRequest", <<>>, StatusRequest_to_u8(<<>>))

EncodeTabComplete ==
    \E p \in TabCompletes : Encoded("TabComplete", p, TabComplete_to_u8(p))

EncodeUseEntity ==
    \E p \in UseEntities : Encoded("UseEntity", p, UseEntity_to_u8(p))

EncodeCraftingBookData ==
    \E p \in CraftingBookDatas :
        Encoded("CraftingBookData", p, CraftingBookData_to_u8(p))

EncodeAdvancementTab ==
    \E p \in AdvancementTabs :
        Encoded("AdvancementTab", p, AdvancementTab_to_u8(p))

DecodeStatusRequest ==
    \E s \in StatusRequestStreams :
        Decoded("StatusRequest", s, StatusRequest_deserialize(s))

DecodeTabComplete ==
    \E s \in TabCompleteStreams :
        Decoded("TabComplete", s, TabComplete_deserialize(s, lenientBool))

DecodeUseEntity ==
    \E s \in UseEntityStreams :
        Decoded("UseEntity", s, UseEntity_deserialize(s))

DecodeCraftingBookData ==
    \E s \in CraftingBookDataStreams :
        Decoded("CraftingBookData", s,
                CraftingBookData_deserialize(s, lenientBool))

DecodeAdvancementTab ==
    \E s \in AdvancementTabStreams :
        Decoded("AdvancementTab", s, AdvancementTab_deserialize(s))

GetNextClientstate ==
    \E h \in Handshakes :
        /\ op' = "get_next_clientstate"
        /\ kind' = "Handshake"
        /\ arg' = h
        /\ result' = get_next_clientstate(h)
        /\ ret' = <<>>
        /\ rest' = <<>>
        /\ UNCHANGED lenientBool

GetDecryptedSharedSecret ==
    \E tmp \in Decryptions :
        /\ op' = "get_decrypted_shared_secret"
        /\ kind' = "EncryptionResponse"
        /\ arg' = tmp
        /\ result' = get_decrypted_shared_secret(tmp)
        /\ ret' = <<>>
        /\ rest' = <<>>
        /\ UNCHANGED lenientBool

Next ==
    \/ EncodeStatusRequest
    \/ EncodeTabComplete
    \/ EncodeUseEntity
    \/ EncodeCraftingBookData
    \/ EncodeAdvancementTab
    \/ DecodeStatusRequest
    \/ DecodeTabComplete
    \/ DecodeUseEntity
    \/ DecodeCraftingBookData
    \/ DecodeAdvancementTab
    \/ GetNextClientstate
    \/ GetDecryptedSharedSecret

Spec == Init /\ [][Next]_vars

----------------------------------------------------------------------------
(* Properties *)

\* the decode routine the dispatch registry resolves for a packet kind
Deserialize(k, s, lenient) ==
    CASE k = "StatusRequest" -> StatusRequest_deserialize(s)
      [] k = "TabComplete" -> TabComplete_deserialize(s, lenient)
      [] k = "UseEntity" -> UseEntity_deserialize(s)
      [] k = "CraftingBookData" -> CraftingBookData_deserialize(s, lenient)
      [] k = "AdvancementTab" -> AdvancementTab_deserialize(s)

\* the emitted bytes after the leading packet id, decoded again
DecodedAgain ==
    Deserialize(kind, read_varint(Unwrap(result.val)).rest, lenientBool)

GatedKinds == {"TabComplete", "UseEntity", "CraftingBookData", "AdvancementTab"}

\* the optional fields of a payload agree with its discriminant
Consistent(k, p) ==
    CASE k = "UseEntity" ->
            /\ IsSome(p.location) <=> p.action = 2
            /\ IsSome(p.hand) <=> p.action \in {0, 2}
      [] k = "CraftingBookData" ->
            IsSome(p.displayed_recipe) /= IsSome(p.crafting_book_status)
      [] OTHER -> TRUE

\* C1: whenever to_u8 of a hand-written packet succeeds, decoding the bytes
\* after the packet id with the same packet's deserialize succeeds and
\* yields a payload equal to the encoded one in every field.
RoundTripLaw ==
    (op = "to_u8" /\ result.ok) =>
        /\ DecodedAgain.ok
        /\ Unwrap(DecodedAgain.val) = Packet(kind, arg)

\* C2: to_u8 of a discriminant-gated packet either fails or returns bytes
\* whose body deserialize accepts and consumes to the last byte, and it
\* rejects every payload whose optional fields disagree with the
\* discriminant.
EncodeNeverMalformed ==
    (op = "to_u8" /\ kind \in GatedKinds) =>
        /\ result.ok => (DecodedAgain.ok /\ DecodedAgain.rest = <<>>)
        /\ ~Consistent(kind, arg) => ~result.ok

\* C3: UseEntity::to_u8 fails with MissingField exactly when action is 2
\* and location is absent or action is 0 or 2 and hand is absent, the error
\* naming the action; every other payload is encoded.  Action 2 without
\* location and with hand 0 fails naming action 2; target 300, action 0,
\* no location, hand 1 gives id, target, action 0, hand 1.
UseEntityMissingField ==
    (op = "to_u8" /\ kind = "UseEntity") =>
        LET noLocation == arg.action = 2 /\ ~IsSome(arg.location)
            noHand == arg.action \in {0, 2} /\ ~IsSome(arg.hand)
        IN /\ result.ok <=> ~(noLocation \/ noHand)
           /\ ~result.ok => /\ Unwrap(result.err).kind = "MissingField"
                            /\ Unwrap(result.err).action = arg.action
           /\ noLocation => Unwrap(result.err).field = "location"
           /\ (noHand /\ ~noLocation) => Unwrap(result.err).field = "hand"
           /\ arg = [target |-> 300, action |-> 0, location |-> None,
                     hand |-> Some(1)]
                => result = Ok(<<10, 172, 2, 0, 1>>)

UseEntityMissingFieldWitness ==
    /\ op = "to_u8"
    /\ kind = "UseEntity"
    /\ arg.action = 2
    /\ arg.location = None
    /\ arg.hand = Some(0)
    /\ ~result.ok
    /\ Unwrap(result.err) = MissingField("location", 2)

\* C4: CraftingBookData and AdvancementTab deserialize fail on every
\* leading tag other than 0 and 1 with InvalidVariant carrying the tag,
\* return no packet and leave the reader right after the tag; a packet is
\* returned only for tag 0 or 1.
UnknownTagRejected ==
    (op = "deserialize" /\ kind \in {"CraftingBookData", "AdvancementTab"}) =>
        LET tag == read_varint(arg)
        IN /\ (tag.ok /\ Unwrap(tag.val) \notin {0, 1}) =>
                /\ result = Err(InvalidVariant(kind, Unwrap(tag.val)))
                /\ rest = tag.rest
           /\ result.ok => (tag.ok /\ Unwrap(tag.val) \in {0, 1})

UnknownTagRejectedWitness ==
    /\ op = "deserialize"
    /\ kind = "CraftingBookData"
    /\ arg = <<2, 0>>
    /\ result = Err(InvalidVariant("CraftingBookData", 2))
    /\ rest = <<0>>

\* C5: get_decrypted_shared_secret propagates a failed decryption, fails
\* with InvalidSecretLength when the plaintext is not exactly 16 bytes, and
\* otherwise returns 16 bytes equal to the plaintext byte for byte.
SharedSecretLength ==
    op = "get_decrypted_shared_secret" =>
        /\ ~arg.ok => result = arg
        /\ (arg.ok /\ Len(Unwrap(arg.val)) /= 16) =>
                result = Err(InvalidSecretLength)
        /\ (arg.ok /\ Len(Unwrap(arg.val)) = 16) =>
                /\ result.ok
                /\ Len(Unwrap(result.val)) = 16
                /\ \A i \in 1..16 : Unwrap(result.val)[i] = Unwrap(arg.val)[i]

SharedSecretLengthWitness ==
    /\ op = "get_decrypted_shared_secret"
    /\ arg.ok
    /\ Len(Unwrap(arg.val)) = 17
    /\ result = Err(InvalidSecretLength)

NextClientstateMapping ==
    op = "get_next_clientstate" =>
        /\ arg.next_state = 1 => result = Some("Status")
        /\ arg.next_state = 2 => result = Some("Login")
        /\ arg.next_state \notin {1, 2} => result = None
        /\ result \notin {Some("Handshake"), Some("Play")}

NextClientstateMappingWitness ==
    /\ op = "get_next_clientstate"
    /\ arg.next_state = 99
    /\ result = None

\* C8: TabComplete::to_u8 emits id, length-prefixed text, assume_command,
\* then flag 1 and the position when looked_at_block is present, flag 0 and
\* nothing more when it is absent; AdvancementTab::to_u8 emits id, then tag
\* 0 and the string when tab_id is present, tag 1 alone when it is absent.
PresenceGatedLayout ==
    /\ (op = "to_u8" /\ kind = "TabComplete") =>
          LET text == Utf8Bytes(arg.text)
              head == <<1>> \o VarintBytes(Len(text)) \o text
                      \o <<IF arg.assume_command THEN 1 ELSE 0>>
          IN /\ result.ok
             /\ IsSome(arg.looked_at_block) =>
                  Unwrap(result.val) =
                     head \o <<1>> \o PositionBytes(Unwrap(arg.looked_at_block))
             /\ ~IsSome(arg.looked_at_block) =>
                  Unwrap(result.val) = head \o <<0>>
             /\ arg = [text |-> <<102, 111, 111>>, assume_command |-> TRUE,
                       looked_at_block |-> None]
                  => result = Ok(<<1, 3, 102, 111, 111, 1, 0>>)
    /\ (op = "to_u8" /\ kind = "AdvancementTab") =>
          /\ result.ok
          /\ IsSome(arg.tab_id) =>
               LET text == Utf8Bytes(Unwrap(arg.tab_id))
               IN Unwrap(result.val) =
                     <<25, 0>> \o VarintBytes(Len(text)) \o text
          /\ ~IsSome(arg.tab_id) => Unwrap(result.val) = <<25, 1>>
          /\ arg = [tab_id |-> Some(<<114, 111, 111, 116>>)]
               => result = Ok(<<25, 0, 4, 114, 111, 111, 116>>)

PresenceGatedLayoutWitness ==
    /\ op = "to_u8"
    /\ kind = "TabComplete"
    /\ IsSome(arg.looked_at_block)
    /\ Len(Unwrap(result.val)) = Len(Utf8Bytes(arg.text)) + 12
    /\ Unwrap(result.val)[Len(Utf8Bytes(arg.text)) + 4] = 1

\* C9: a successful UseEntity::deserialize read target, then action, then
\* three floats exactly when action is 2, then one varint exactly when
\* action is 0 or 2, and nothing else: location is present exactly when
\* action is 2, hand exactly when action is 0 or 2, and the reader is left
\* right after the last field of the branch.
UseEntityDecodeBranches ==
    (op = "deserialize" /\ kind = "UseEntity" /\ result.ok) =>
        LET p == Unwrap(result.val).body
            target == read_varint(arg)
            action == read_varint(target.rest)
            afterLoc == IF p.action = 2
                        THEN SubSeq(action.rest, 13, Len(action.rest))
                        ELSE action.rest
        IN /\ p.target = Unwrap(target.val)
           /\ p.action = Unwrap(action.val)
           /\ IsSome(p.location) <=> p.action = 2
           /\ IsSome(p.hand) <=> p.action \in {0, 2}
           /\ p.action = 2 =>
                /\ Len(action.rest) >= 12
                /\ Unwrap(p.location) =
                     <<I32OfBytes(SubSeq(action.rest, 1, 4)),
                       I32OfBytes(SubSeq(action.rest, 5, 8)),
                       I32OfBytes(SubSeq(action.rest, 9, 12))>>
           /\ p.action \in {0, 2} =>
                /\ p.hand = read_varint(afterLoc).val
                /\ rest = read_varint(afterLoc).rest
           /\ p.action \notin {0, 2} => rest = action.rest

UseEntityDecodeBranchesWitness ==
    /\ op = "deserialize"
    /\ kind = "UseEntity"
    /\ result.ok
    /\ Unwrap(result.val).body.action = 2
    /\ IsSome(Unwrap(result.val).body.location)
    /\ Unwrap(result.val).body.hand = Some(1)
    /\ rest = <<7>>

\* C10: CraftingBookData::to_u8 emits id, tag 0 and the 32-bit recipe when
\* displayed_recipe is set; id, tag 1 and the two booleans when only
\* crafting_book_status is set; and with neither set it succeeds with the
\* packet id alone, which CraftingBookData::deserialize does not decode.
CraftingBookDataLayout ==
    (op = "to_u8" /\ kind = "CraftingBookData") =>
        /\ result.ok
        /\ IsSome(arg.displayed_recipe) =>
             Unwrap(result.val) =
                <<23, 0>> \o I32Bytes(Unwrap(arg.displayed_recipe))
        /\ arg.displayed_recipe = Some(258) =>
             Unwrap(result.val) = <<23, 0, 0, 0, 1, 2>>
        /\ (~IsSome(arg.displayed_recipe) /\ IsSome(arg.crafting_book_status)) =>
             LET st == Unwrap(arg.crafting_book_status)
             IN Unwrap(result.val) =
                   <<23, 1, IF st[1] THEN 1 ELSE 0, IF st[2] THEN 1 ELSE 0>>
        /\ (~IsSome(arg.displayed_recipe) /\ ~IsSome(arg.crafting_book_status)) =>
             /\ Unwrap(result.val) = <<23>>
             /\ ~DecodedAgain.ok

CraftingBookDataLayoutWitness ==
    /\ op = "to_u8"
    /\ kind = "CraftingBookData"
    /\ arg.displayed_recipe = None
    /\ arg.crafting_book_status = None
    /\ result = Ok(<<23>>)

====
